---- MODULE Spec2Model ----
(***************************************************************************)
(* Model of the two GCP resource filters of c7n_gcp:                       *)
(*   GCPMetricsFilter                      (filters/metrics.py)            *)
(*   SecurityComandCenterFindingsFilter    (filters/sccfindings.py)        *)
(*                                                                         *)
(* A Python dict is a TLA+ function whose DOMAIN is the set of keys that   *)
(* are present; a Python list is a sequence; an optional value (a value    *)
(* or None) is a sequence of length 0 or 1.  Numbers are hundredths, so    *)
(* the 0.1 of the tests is 10.  A string built by format()/join() is the   *)
(* sequence of the pieces it is concatenated from.                         *)
(***************************************************************************)
EXTENDS Integers, Sequences, FiniteSets, TLC

VARIABLES data, resources, resource_metric_dict, findings_by_resource,
          response, query, outcome, runs

vars == <<data, resources, resource_metric_dict, findings_by_resource,
          response, query, outcome, runs>>

(* ------------------------------ bounds --------------------------------- *)
MaxRes == 2
MaxRecs == 2
MaxRuns == 2

(* --------------------------- Python helpers ---------------------------- *)
EmptyDict == [k \in {} |-> k]

\* d.get(k): the value as an optional
Get(d, k) == IF k \in DOMAIN d THEN <<d[k]>> ELSE <<>>

\* d[k] = v
Put(d, k, v) == (k :> v) @@ d

\* the lists of at most n distinct members of S
SeqsUpTo(S, n) ==
    {s \in UNION {[1..k -> S] : k \in 0..n} :
        \A i, j \in 1..Len(s) : i # j => s[i] # s[j]}

\* the None a path search returns; format() prints it as "None"
NoneVal == "<None>"

Str(v) == IF v = NoneVal THEN "None" ELSE v

\* jmespath.search(path, obj) for a one-field path: the field, or None
search(path, obj) == IF path \in DOMAIN obj THEN obj[path] ELSE NoneVal

\* s.rsplit(sep, 1)[0] on a string given as its pieces: everything before the
\* last occurrence of sep, the whole string when sep does not occur
rsplit_head(s, sep) ==
    LET occ == {i \in 1..Len(s) : s[i] = sep}
    IN IF occ = {} THEN s
       ELSE SubSeq(s, 1, (CHOOSE i \in occ : \A j \in occ : j <= i) - 1)

(* ----------------------------- input pools ----------------------------- *)
MetricName == "cpu/utilization"
ResourceKey == "name"
MetricKey == "instance_name"

\* a time series as the monitoring API returns it, reduced to the fields the
\* filter reads: the label the metric-key path selects and the points
MetricPool ==
    { [instance_name |-> "a", points |-> <<[value |-> [doubleValue |-> 5]]>>],
      [instance_name |-> "a", points |-> <<[value |-> [doubleValue |-> 20]],
                                           [value |-> [doubleValue |-> 5]]>>],
      [instance_name |-> "b", metricKind |-> "GAUGE"],
      [metricKind |-> "GAUGE", points |-> <<[value |-> [doubleValue |-> 20]]>>] }

\* the body of projects.timeSeries.list: with or without a timeSeries member
MetricResponses ==
    {[unit |-> "1"]} \cup {[timeSeries |-> s] : s \in SeqsUpTo(MetricPool, MaxRecs)}

\* resourceName is held as its '/'-separated segments
FindingPool ==
    { [finding |-> [resourceName |-> <<"//storage.googleapis.com", "a">>, category |-> "X"]],
      [finding |-> [resourceName |-> <<"//storage.googleapis.com", "a">>, category |-> "Y"]],
      [finding |-> [resourceName |-> <<"//storage.googleapis.com", "b">>, category |-> "X"]],
      [finding |-> [category |-> "X"]] }

FindingResponses ==
    {[nextPageToken |-> ""]}
        \cup {[listFindingsResults |-> s] : s \in SeqsUpTo(FindingPool, MaxRecs)}

\* the filter of the tests (no missing-value, so 0), and one with the other
\* comparison and a missing-value of its own
MetricsData ==
    { [type |-> "metrics", name |-> MetricName, aligner |-> "ALIGN_MEAN",
       op |-> "less-than", value |-> 10],
      ("missing-value" :> 5) @@
      [type |-> "metrics", name |-> MetricName, aligner |-> "ALIGN_MEAN",
       op |-> "greater-than", value |-> 10] }

FindingsData ==
    { [type |-> "scc-findings", org |-> "1"],
      [type |-> "scc-findings", org |-> "1", key |-> "category", value |-> "X"] }

BareResources ==
    { [kind |-> "res", name |-> "a"], [kind |-> "res", name |-> "b"], [kind |-> "res"] }

\* the entry an earlier metrics filter with another aligner left on a resource
OtherMetricKey == MetricName \o "." \o "ALIGN_MAX" \o "." \o "REDUCE_NONE"

Chained(r) == Put(r, "c7n.metrics", Put(EmptyDict, OtherMetricKey, <<>>))

(* ------------------------- c7n.filters.core ---------------------------- *)
\* OPERATORS[op](a, b)
OPERATORS(op, a, b) ==
    CASE op = "less-than" -> a < b
      [] op = "greater-than" -> a > b
      [] op = "equal" -> a = b
      [] OTHER -> FALSE

(* ======================= filters/metrics.py ============================ *)

\* self.data.get(k, default)
DataGet(d, k, default) == IF k \in DOMAIN d THEN d[k] ELSE default

\* the attributes process() assigns from self.data (lines 104-116); the
\* correlation dict starts empty in every invocation (line 114)
metrics_self(d) ==
    [ metric |-> d.name,
      resource_key |-> ResourceKey,
      metric_key |-> MetricKey,
      aligner |-> DataGet(d, "aligner", "ALIGN_NONE"),
      reducer |-> DataGet(d, "reducer", "REDUCE_NONE"),
      missing_value |-> DataGet(d, "missing-value", 0),
      op |-> DataGet(d, "op", "less-than"),
      value |-> d.value,
      resource_metric_dict |-> EmptyDict ]

\* '{} = "{}" OR '.format(self.metric_key, resource_name), one per resource
RECURSIVE query_clauses(_, _)
query_clauses(self, rs) ==
    IF rs = <<>> THEN <<>>
    ELSE <<self.metric_key, " = \"", Str(search(self.resource_key, Head(rs))), "\"", " OR ">>
            \o query_clauses(self, Tail(rs))

get_query_filter(self, rs) ==
    LET metric_filter == <<"metric.type = \"", self.metric, "\"", " AND ">>
                            \o query_clauses(self, rs)
    IN rsplit_head(metric_filter, " OR ")

\* for m in metric_list: self.resource_metric_dict[key(m)] = m
RECURSIVE split_metrics(_, _, _)
split_metrics(self, d, metric_list) ==
    IF metric_list = <<>> THEN d
    ELSE split_metrics(self,
                       Put(d, search(self.metric_key, Head(metric_list)), Head(metric_list)),
                       Tail(metric_list))

\* metric["points"][0]["value"] can be read
HasFirstValue(m) ==
    /\ "points" \in DOMAIN m
    /\ Len(m.points) > 0
    /\ "value" \in DOMAIN m.points[1]

\* a slip: the value of the last point instead of the first
FirstValue_last_point(m) ==
    LET v == m.points[Len(m.points)].value
    IN v[CHOOSE f \in DOMAIN v : TRUE]

\* float(list(metric["points"][0]["value"].values())[0]); the value dict of a
\* point has one member, and float() of a double is that double
FirstValue(m) ==
    LET v == m.points[1].value
    IN v[CHOOSE f \in DOMAIN v : TRUE]

\* a slip: the key leaves out the alignment and reduction modes
c7n_metric_key_name_only(self) == self.metric

c7n_metric_key(self) == self.metric \o "." \o self.aligner \o "." \o self.reducer

\* a slip: the annotation is written after the decision, for retained
\* resources only
metrics_process_resource_annotate_retained(self, resource) ==
    LET r1 == IF "c7n.metrics" \in DOMAIN resource
                 THEN resource
                 ELSE Put(resource, "c7n.metrics", EmptyDict)
        resource_name == search(self.resource_key, resource)
        metric == Get(self.resource_metric_dict, resource_name)
    IN IF metric # <<>> /\ ~HasFirstValue(metric[1])
         THEN [resource |-> r1, matched |-> FALSE, error |-> "KeyError:points"]
         ELSE LET metric_value == IF metric = <<>>
                                    THEN self.missing_value
                                    ELSE metric[1].points[1].value.doubleValue
                  matched == OPERATORS(self.op, metric_value, self.value)
                  r2 == Put(r1, "c7n.metrics",
                            Put(r1["c7n.metrics"], self.metric \o "." \o self.aligner \o "." \o self.reducer, metric))
              IN [resource |-> IF matched THEN r2 ELSE r1,
                  matched |-> matched,
                  error |-> ""]

\* one call of process_resource: the resource as it leaves the call, the
\* decision, and the exception when the call raises
metrics_process_resource(self, resource) ==
    LET r1 == IF "c7n.metrics" \in DOMAIN resource
                 THEN resource
                 ELSE Put(resource, "c7n.metrics", EmptyDict)
        resource_name == search(self.resource_key, resource)
        metric == Get(self.resource_metric_dict, resource_name)
    IN IF metric # <<>> /\ ~HasFirstValue(metric[1])
         THEN [resource |-> r1, matched |-> FALSE, error |-> "KeyError:points"]
         ELSE LET metric_value == IF metric = <<>>
                                    THEN self.missing_value
                                    ELSE FirstValue(metric[1])
                  r2 == Put(r1, "c7n.metrics",
                            Put(r1["c7n.metrics"], c7n_metric_key(self), metric))
              IN [resource |-> r2,
                  matched |-> OPERATORS(self.op, metric_value, self.value),
                  error |-> ""]

\* matched = [r for r in resources if self.process_resource(r)], resources
\* from position i on; the retained resources are named by their positions
RECURSIVE metrics_matched(_, _, _, _)
metrics_matched(self, rs, i, matched) ==
    IF i > Len(rs)
      THEN [resources |-> rs, matched |-> matched, error |-> "", at |-> 0]
      ELSE LET pr == metrics_process_resource(self, rs[i])
               rs1 == [rs EXCEPT ![i] = pr.resource]
           IN IF pr.error # ""
                THEN [resources |-> rs1, matched |-> <<>>, error |-> pr.error, at |-> i]
                ELSE metrics_matched(self, rs1, i + 1,
                                     IF pr.matched THEN Append(matched, i) ELSE matched)

\* process(resources) given the dict the instance holds when the records are
\* correlated and the body the client returns
metrics_run(self0, start_dict, rs, metric_list) ==
    LET q == get_query_filter(self0, rs)
    IN IF "timeSeries" \notin DOMAIN metric_list
         THEN [resources |-> rs, dict |-> start_dict, query |-> q,
               matched |-> <<>>, error |-> "KeyError:timeSeries", at |-> 0]
         ELSE LET d == split_metrics(self0, start_dict, metric_list.timeSeries)
                  self == [self0 EXCEPT !.resource_metric_dict = d]
                  m == metrics_matched(self, rs, 1, <<>>)
              IN [resources |-> m.resources, dict |-> d, query |-> q,
                  matched |-> m.matched, error |-> m.error, at |-> m.at]

\* a slip: the dict of the instance is not emptied before correlating
metrics_process_keep_dict(d, old_dict, rs, metric_list) ==
    metrics_run(metrics_self(d), old_dict, rs, metric_list)

metrics_process(d, old_dict, rs, metric_list) ==
    metrics_run(metrics_self(d), EmptyDict, rs, metric_list)

Outcome(error, matched, at) ==
    [status |-> IF error = "" THEN "returned" ELSE "raised",
     matched |-> matched, error |-> error, at |-> at]

MetricsProcess(metric_list) ==
    /\ data.type = "metrics"
    /\ runs < MaxRuns
    /\ \E p \in {metrics_process(data, resource_metric_dict, resources, metric_list)} :
          /\ resources' = p.resources
          /\ resource_metric_dict' = p.dict
          /\ query' = p.query
          /\ outcome' = Outcome(p.error, p.matched, p.at)
    /\ response' = metric_list
    /\ runs' = runs + 1
    /\ UNCHANGED <<data, findings_by_resource>>

(* ====================== filters/sccfindings.py ========================= *)

\* self.manager.resource_type.name: the resource member that names it
ResourceTypeName == "name"

\* the pieces get_resource_filter appends for rs, up to the first resource
\* without the name member (r[...] raises KeyError there)
RECURSIVE resource_clauses(_)
resource_clauses(rs) ==
    IF rs = <<>> THEN [filter |-> <<>>, error |-> ""]
    ELSE IF ResourceTypeName \notin DOMAIN Head(rs)
      THEN [filter |-> <<>>, error |-> "KeyError:name"]
      ELSE LET rest == resource_clauses(Tail(rs))
           IN [filter |-> <<"resourceName:\"" \o Head(rs)[ResourceTypeName] \o "\"", " OR ">>
                             \o rest.filter,
               error |-> rest.error]

\* the list after the loop, pop() of its last piece (IndexError on the empty
\* list), then ''.join
get_resource_filter(rs) ==
    LET c == resource_clauses(rs)
    IN IF c.error # "" THEN [filter |-> <<>>, error |-> c.error]
       ELSE IF c.filter = <<>> THEN [filter |-> <<>>, error |-> "IndexError:pop"]
       ELSE [filter |-> SubSeq(c.filter, 1, Len(c.filter) - 1), error |-> ""]

\* f["finding"]["resourceName"].split('/')[-1]
finding_key(f) == f.finding.resourceName[Len(f.finding.resourceName)]

HasResourceName(f) == "finding" \in DOMAIN f /\ "resourceName" \in DOMAIN f.finding

\* the loop of split_by_resource over finding_list, stopping at the first
\* finding whose resourceName cannot be read; the dict keeps what was stored
RECURSIVE split_findings(_, _)
split_findings(d, finding_list) ==
    IF finding_list = <<>> THEN [dict |-> d, error |-> ""]
    ELSE LET f == Head(finding_list)
         IN IF ~HasResourceName(f)
              THEN [dict |-> d, error |-> "KeyError:resourceName"]
              ELSE LET resource_name == finding_key(f)
                       got == Get(d, resource_name)
                       resource_findings == IF got = <<>> THEN <<>> ELSE got[1]
                   IN split_findings(Put(d, resource_name, Append(resource_findings, f)),
                                     Tail(finding_list))

\* ValueFilter.match with 'key' configured: some correlated finding carries
\* the configured value under the configured member
match(d, resource_findings) ==
    \E i \in 1..Len(resource_findings) :
        /\ d.key \in DOMAIN resource_findings[i].finding
        /\ resource_findings[i].finding[d.key] = d.value

\* a slip: the existence check reads the annotation list, which holds the
\* findings of earlier runs too
findings_process_resource_accumulated(d, dict, resource) ==
    LET resource_name == resource[ResourceTypeName]
        got == Get(dict, resource_name)
        resource_findings == IF got = <<>> THEN <<>> ELSE got[1]
        old == IF "c7n.findings" \in DOMAIN resource THEN resource["c7n.findings"] ELSE <<>>
        r1 == Put(resource, "c7n.findings", old \o resource_findings)
    IN [resource |-> r1,
        matched |-> IF "key" \notin DOMAIN d
                      THEN Len(r1["c7n.findings"]) > 0
                      ELSE match(d, resource_findings)]

findings_process_resource(d, dict, resource) ==
    LET resource_name == resource[ResourceTypeName]
        got == Get(dict, resource_name)
        resource_findings == IF got = <<>> THEN <<>> ELSE got[1]
        old == IF "c7n.findings" \in DOMAIN resource THEN resource["c7n.findings"] ELSE <<>>
        r1 == Put(resource, "c7n.findings", old \o resource_findings)
    IN [resource |-> r1,
        matched |-> IF "key" \notin DOMAIN d
                      THEN Len(resource_findings) > 0
                      ELSE match(d, resource_findings)]

RECURSIVE findings_matched(_, _, _, _, _)
findings_matched(d, dict, rs, i, matched) ==
    IF i > Len(rs)
      THEN [resources |-> rs, matched |-> matched]
      ELSE LET pr == findings_process_resource(d, dict, rs[i])
           IN findings_matched(d, dict, [rs EXCEPT ![i] = pr.resource], i + 1,
                               IF pr.matched THEN Append(matched, i) ELSE matched)

\* findings_list.get('listFindingsResults'), replaced by [] when falsy
findings_results(findings_list) ==
    IF "listFindingsResults" \in DOMAIN findings_list
      THEN findings_list.listFindingsResults
      ELSE <<>>

findings_run(d, start_dict, rs, findings_list) ==
    LET q == get_resource_filter(rs)
    IN IF q.error # ""
         THEN [resources |-> rs, dict |-> start_dict, query |-> <<>>, fetched |-> FALSE,
               matched |-> <<>>, error |-> q.error]
         ELSE LET s == split_findings(start_dict, findings_results(findings_list))
              IN IF s.error # ""
                   THEN [resources |-> rs, dict |-> s.dict, query |-> q.filter,
                         fetched |-> TRUE, matched |-> <<>>, error |-> s.error]
                   ELSE LET m == findings_matched(d, s.dict, rs, 1, <<>>)
                        IN [resources |-> m.resources, dict |-> s.dict, query |-> q.filter,
                            fetched |-> TRUE, matched |-> m.matched, error |-> ""]

findings_process(d, old_dict, rs, findings_list) ==
    findings_run(d, EmptyDict, rs, findings_list)

\* the call of the client is reached only when the filter string was built
FindingsProcess(findings_list) ==
    /\ data.type = "scc-findings"
    /\ runs < MaxRuns
    /\ \E p \in {findings_process(data, findings_by_resource, resources, findings_list)} :
          /\ resources' = p.resources
          /\ findings_by_resource' = p.dict
          /\ query' = p.query
          /\ outcome' = Outcome(p.error, p.matched, 0)
          /\ response' = IF p.fetched THEN findings_list ELSE [unfetched |-> ""]
    /\ runs' = runs + 1
    /\ UNCHANGED <<data, resource_metric_dict>>

(* ========================= the state machine =========================== *)

\* a policy holds one of the two filters; its resources may have passed an
\* earlier metrics filter with another aligner
Init ==
    /\ data \in MetricsData \cup FindingsData
    /\ \E rs \in SeqsUpTo(BareResources, MaxRes), chained \in BOOLEAN :
          /\ chained => data.type = "metrics" /\ rs # <<>>
          /\ resources = [i \in 1..Len(rs) |-> IF chained THEN Chained(rs[i]) ELSE rs[i]]
    /\ resource_metric_dict = EmptyDict
    /\ findings_by_resource = EmptyDict
    /\ response = [unfetched |-> ""]
    /\ query = <<>>
    /\ outcome = [status |-> "idle", matched |-> <<>>, error |-> "", at |-> 0]
    /\ runs = 0

Next ==
    \/ \E metric_list \in MetricResponses : MetricsProcess(metric_list)
    \/ \E findings_list \in FindingResponses : FindingsProcess(findings_list)

Spec == Init /\ [][Next]_vars

(* ============================ properties =============================== *)

Returned == outcome.status = "returned"

Retained(i) == \E j \in 1..Len(outcome.matched) : outcome.matched[j] = i

IsMetrics == data.type = "metrics"

IsFindings == data.type = "scc-findings"

\* the composite key the configuration of the policy names
ConfiguredMetricKey ==
    data.name \o "." \o DataGet(data, "aligner", "ALIGN_NONE")
              \o "." \o DataGet(data, "reducer", "REDUCE_NONE")

\* the time series of a response body whose key is the key of resource r,
\* in the order fetched
SeriesFor(resp, r) ==
    IF "timeSeries" \notin DOMAIN resp THEN <<>>
    ELSE SelectSeq(resp.timeSeries,
                   LAMBDA m : search(MetricKey, m) = search(ResourceKey, r))

\* the findings of a response body whose resourceName ends in the name of r
FoundFor(resp, r) ==
    IF "listFindingsResults" \notin DOMAIN resp \/ "name" \notin DOMAIN r THEN <<>>
    ELSE SelectSeq(resp.listFindingsResults,
                   LAMBDA f : /\ "resourceName" \in DOMAIN f.finding
                              /\ f.finding.resourceName[Len(f.finding.resourceName)] = r.name)

MetricsOf(r) == IF "c7n.metrics" \in DOMAIN r THEN r["c7n.metrics"] ELSE EmptyDict

FindingsOf(r) == IF "c7n.findings" \in DOMAIN r THEN r["c7n.findings"] ELSE <<>>

\* the number the threshold is compared with for resource r
Observed(resp, r) ==
    LET s == SeriesFor(resp, r)
    IN IF s = <<>> THEN DataGet(data, "missing-value", 0)
       ELSE s[Len(s)].points[1].value.doubleValue

C2_NoMetricsFoundReturnsEmpty ==
    ( /\ IsMetrics /\ outcome.status # "idle"
      /\ data.op = "less-than" /\ data.value = 10 /\ "missing-value" \notin DOMAIN data
      /\ ("timeSeries" \notin DOMAIN response \/ response.timeSeries = <<>>)
      /\ Returned )
    => outcome.matched = <<>>

BooleanOperators == {" OR ", " AND "}

CountOf(s, piece) == Cardinality({i \in 1..Len(s) : s[i] = piece})

\* C3: the filter expression has one clause per resource joined by OR and no
\* dangling boolean operator at its end, for 0, 1 and N >= 2 resources; over
\* zero resources it is the empty selector and building it does not raise.
C3_FilterExpressionWellFormed ==
    (outcome.status # "idle" /\ outcome.error # "KeyError:name") =>
        /\ outcome.error # "IndexError:pop"
        /\ resources = <<>> => query = <<>>
        /\ resources # <<>> =>
             /\ query # <<>>
             /\ query[Len(query)] \notin BooleanOperators
             /\ CountOf(query, " OR ") = Len(resources) - 1

\* C4: after a run that returned, every resource of the list, retained or
\* dropped, carries its annotation entry.
C4_EveryResourceAnnotated ==
    Returned =>
        \A i \in 1..Len(resources) :
            /\ IsMetrics => ConfiguredMetricKey \in DOMAIN MetricsOf(resources[i])
            /\ IsFindings => "c7n.findings" \in DOMAIN resources[i]

\* a dropped resource annotated with no record
C4_Witness ==
    /\ IsMetrics /\ Returned
    /\ \E i \in 1..Len(resources) :
          /\ ~Retained(i)
          /\ ConfiguredMetricKey \in DOMAIN MetricsOf(resources[i])
          /\ MetricsOf(resources[i])[ConfiguredMetricKey] = <<>>

\* C5: a correlated record without the points/value member does not raise out
\* of the run; every resource is still evaluated and annotated.
C5_MalformedRecordIsolated ==
    (IsMetrics /\ outcome.status # "idle" /\ "timeSeries" \in DOMAIN response) =>
        /\ Returned
        /\ \A i \in 1..Len(resources) :
              ConfiguredMetricKey \in DOMAIN MetricsOf(resources[i])

\* C6: a key that does not resolve is no error and no correlation: a resource
\* without the key is annotated with no record (metrics) or no finding.
C6_UnresolvedKeyNeverCorrelates ==
    (outcome.status # "idle") =>
        /\ outcome.error \notin {"KeyError:name", "KeyError:resourceName"}
        /\ (IsMetrics /\ Returned) =>
              \A i \in 1..Len(resources) :
                  ResourceKey \notin DOMAIN resources[i] =>
                      MetricsOf(resources[i])[ConfiguredMetricKey] = <<>>

RECURSIVE SumLen(_, _)
SumLen(d, keys) ==
    IF keys = {} THEN 0
    ELSE LET k == CHOOSE x \in keys : TRUE
         IN Len(d[k]) + SumLen(d, keys \ {k})

\* C7: split_by_resource drops no record that resolves a key and does not
\* fail on one that does not: the lists hold as many records as resolve.
C7_NoRecordDropped ==
    (IsFindings /\ outcome.status # "idle" /\ "unfetched" \notin DOMAIN response) =>
        /\ outcome.error # "KeyError:resourceName"
        /\ SumLen(findings_by_resource, DOMAIN findings_by_resource)
             = LET recs == findings_results(response)
               IN Cardinality({i \in 1..Len(recs) : HasResourceName(recs[i])})

\* C8: a metrics run changes no entry of 'c7n.metrics' but the one under the
\* composite key, which it holds once with the record of this run; a findings
\* run leaves 'c7n.findings' as it was followed by the findings of this run.
C8_OverwriteVersusAppend ==
    [][ \A i \in 1..Len(resources) :
          /\ IsMetrics =>
               LET o == MetricsOf(resources[i])
                   n == MetricsOf(resources'[i])
               IN /\ DOMAIN n \subseteq DOMAIN o \cup {ConfiguredMetricKey}
                  /\ \A k \in DOMAIN o \ {ConfiguredMetricKey} :
                        k \in DOMAIN n /\ n[k] = o[k]
                  /\ outcome'.status = "returned" =>
                        /\ ConfiguredMetricKey \in DOMAIN n
                        /\ LET s == SeriesFor(response', resources[i])
                           IN n[ConfiguredMetricKey]
                                = IF s = <<>> THEN <<>> ELSE <<s[Len(s)]>>
          /\ IsFindings =>
               FindingsOf(resources'[i])
                 = FindingsOf(resources[i])
                     \o (IF outcome'.status = "returned"
                           THEN FoundFor(response', resources[i]) ELSE <<>>)
      ]_vars

\* a second run over resources that carry the first run's annotations: one
\* finding appended to one finding
C8_Witness ==
    /\ IsFindings /\ Returned /\ runs = 2
    /\ \E i \in 1..Len(resources) :
          /\ Len(FindingsOf(resources[i])) = 2
          /\ Len(FoundFor(response, resources[i])) = 1

\* C9: without 'key', a returned findings run retains a resource exactly when
\* a finding of this run correlates to it; in a first run the annotation list
\* is as long as the number of findings correlated.
C9_ExistenceMatch ==
    (IsFindings /\ "key" \notin DOMAIN data /\ Returned) =>
        \A i \in 1..Len(resources) :
            /\ Retained(i) <=> Len(FoundFor(response, resources[i])) > 0
            /\ runs = 1 =>
                 Len(FindingsOf(resources[i])) = Len(FoundFor(response, resources[i]))

\* one resource retained with a list of length 1, one dropped with length 0
C9_Witness ==
    /\ IsFindings /\ "key" \notin DOMAIN data /\ Returned /\ runs = 1
    /\ \E i, j \in 1..Len(resources) :
          /\ Retained(i) /\ Len(FindingsOf(resources[i])) = 1
          /\ ~Retained(j) /\ Len(FindingsOf(resources[j])) = 0

\* C10: the correlation index holds only records fetched in the invocation
\* that built it, each under its own key.
C10_IndexRebuiltPerInvocation ==
    (outcome.status # "idle") =>
        /\ \A k \in DOMAIN resource_metric_dict :
              /\ "timeSeries" \in DOMAIN response
              /\ \E j \in 1..Len(response.timeSeries) :
                    /\ response.timeSeries[j] = resource_metric_dict[k]
                    /\ search(MetricKey, response.timeSeries[j]) = k
        /\ \A k \in DOMAIN findings_by_resource :
              /\ "listFindingsResults" \in DOMAIN response
              /\ \A n \in 1..Len(findings_by_resource[k]) :
                    \E j \in 1..Len(response.listFindingsResults) :
                        response.listFindingsResults[j] = findings_by_resource[k][n]

\* a second run that correlated nothing, over a resource that carries a
\* finding correlated by the first
C10_Witness ==
    /\ IsFindings /\ Returned /\ runs = 2
    /\ findings_by_resource = EmptyDict
    /\ \E i \in 1..Len(resources) : Len(FindingsOf(resources[i])) > 0

====
